---- MODULE Spec2Model ----
(***************************************************************************)
(* Model of jcornejope/meta-filter: the predicate components CostFilter    *)
(* and VersionFilter, their composition MetaFilter<CostFilter,             *)
(* VersionFilter> (src/metafilter.h) and the collection filter get_cards   *)
(* (src/main.cpp).                                                         *)
(*                                                                         *)
(* float values are modelled by integers in units of 0.5: every cost and   *)
(* bound the program uses (30, 10, 12.5, 100, 45, 50, 0) is a multiple of  *)
(* 0.5, and the only float operations of the code are < and >, which the   *)
(* scaling preserves.  A Card* is modelled by an index into the heap Card. *)
(***************************************************************************)
EXTENDS Integers, Sequences, FiniteSets, TLC

VARIABLES
    filter,     \* the MetaFilter<CostFilter, VersionFilter> object of main
    lists,      \* the CardList objects: lists["cards"], lists["out_cards"]
    result      \* what the last operation was called with and what it returned

vars == <<filter, lists, result>>

(***************************************************************************)
(* Bounds of the model.                                                    *)
(***************************************************************************)
MaxLen == 2         \* longest arbitrary input collection
MaxVersions == 2    \* most add_version calls on the filter

(***************************************************************************)
(* Program data.                                                           *)
(***************************************************************************)
\* std::numeric_limits<float>::max(): above every other value of the model
FLT_MAX == 2147483647

\* The Card objects main allocates, by pointer.  m_cost is in units of 0.5.
Ptrs == 1..5

Card ==
    1 :> [m_id |-> 0, m_cost |-> 60,  m_version |-> 1, m_leader_id |-> 0] @@
    2 :> [m_id |-> 1, m_cost |-> 20,  m_version |-> 1, m_leader_id |-> 0] @@
    3 :> [m_id |-> 2, m_cost |-> 25,  m_version |-> 1, m_leader_id |-> 1] @@
    4 :> [m_id |-> 3, m_cost |-> 200, m_version |-> 1, m_leader_id |-> 1] @@
    5 :> [m_id |-> 4, m_cost |-> 90,  m_version |-> 2, m_leader_id |-> 1]

\* The collection main builds
MainCards == <<1, 2, 3, 4, 5>>

\* The two CardList objects of main
ListNames == {"cards", "out_cards"}

\* Arguments of max_cost and min_cost: 10.0, the cost of a card, and 50.0,
\* main's; of add_version: main's, one a version of the cards and one not
CostArgs == {20, 100}
VersionArgs == {1, 3}

RECURSIVE SeqsUpTo(_, _)
SeqsUpTo(S, n) ==
    IF n = 0 THEN {<<>>}
    ELSE LET shorter == SeqsUpTo(S, n - 1)
         IN  shorter \cup {Append(s, x) : s \in shorter, x \in S}

\* Input collections: main's, and every collection of at most MaxLen pointers
\* (a CardList is a std::vector<Card*>: the same pointer may occur twice)
InputLists == {MainCards} \cup SeqsUpTo(Ptrs, MaxLen)

(***************************************************************************)
(* CostFilter                                                              *)
(***************************************************************************)
CostFilter_ctor_swapped == [m_max_cost |-> 0, m_min_cost |-> FLT_MAX]

CostFilter_ctor == [m_max_cost |-> FLT_MAX, m_min_cost |-> 0]

CostFilter_evaluate_inclusive(self, card) ==
    card.m_cost >= self.m_min_cost /\ card.m_cost <= self.m_max_cost

CostFilter_evaluate(self, card) ==
    card.m_cost > self.m_min_cost /\ card.m_cost < self.m_max_cost

(***************************************************************************)
(* VersionFilter                                                           *)
(***************************************************************************)
VersionFilter_ctor == [m_versions |-> <<>>]

\* std::find over [first, last): the first position holding value, or last
RECURSIVE std_find(_, _, _, _)
std_find(s, first, last, value) ==
    IF first = last THEN last
    ELSE IF s[first] = value THEN first
    ELSE std_find(s, first + 1, last, value)

VersionFilter_evaluate_first_only(self, card) ==
    Len(self.m_versions) > 0 /\ self.m_versions[1] = card.m_version

VersionFilter_evaluate(self, card) ==
    LET end == Len(self.m_versions) + 1
    IN  std_find(self.m_versions, 1, end, card.m_version) # end

(***************************************************************************)
(* MetaFilter<CostFilter, VersionFilter>                                   *)
(***************************************************************************)
\* The object holds the members of both bases
MetaFilter_ctor == CostFilter_ctor @@ VersionFilter_ctor

MetaFilter_evaluate_eager(self, card) ==
    [ret   |-> CostFilter_evaluate(self, card) /\ VersionFilter_evaluate(self, card),
     calls |-> <<"CostFilter", "VersionFilter">>]

MetaFilter_evaluate_first(self, card) ==
    [ret   |-> CostFilter_evaluate(self, card),
     calls |-> <<"CostFilter">>]

\* ret = Filter::evaluate(card); then, for the one MoreFilters,
\* ret = ret && MoreFilters::evaluate(card): && calls its right operand only
\* when ret is true.  calls lists the component evaluate calls made, in order.
MetaFilter_evaluate(self, card) ==
    LET ret0 == CostFilter_evaluate(self, card)
        more == IF ret0
                THEN [ret |-> VersionFilter_evaluate(self, card),
                      calls |-> <<"VersionFilter">>]
                ELSE [ret |-> FALSE, calls |-> <<>>]
    IN  [ret |-> more.ret, calls |-> <<"CostFilter">> \o more.calls]

(***************************************************************************)
(* get_cards                                                               *)
(***************************************************************************)
\* for( auto const& card : cards ) if( filter.evaluate( *card ) ) push_back
RECURSIVE get_cards_loop(_, _, _, _)
get_cards_loop(cards, f, i, out_cards) ==
    IF i > Len(cards) THEN out_cards
    ELSE get_cards_loop(cards, f, i + 1,
             IF MetaFilter_evaluate(f, Card[cards[i]]).ret
             THEN Append(out_cards, cards[i])
             ELSE out_cards)

get_cards_no_clear(ls, in, out, f) ==
    LET filled == get_cards_loop(ls[in], f, 1, ls[out])
    IN  [lists |-> [ls EXCEPT ![out] = filled], ret |-> Len(filled)]

\* in and out name the objects the references cards and out_cards are bound
\* to; they may be the same object, and then clear() empties cards too and
\* the loop runs over the emptied vector.
get_cards(ls, in, out, f) ==
    LET cleared == [ls EXCEPT ![out] = <<>>]
        filled  == get_cards_loop(cleared[in], f, 1, cleared[out])
    IN  [lists |-> [cleared EXCEPT ![out] = filled], ret |-> Len(filled)]

(***************************************************************************)
(* The state machine                                                       *)
(***************************************************************************)
\* op: the operation; arg: its value or Card* argument; in, out: the objects
\* get_cards was given; ret, count: the value returned; calls: the component
\* evaluate calls the composed evaluate made; again: the call repeats the
\* previous operation, a get_cards on the same objects
NoResult ==
    [op |-> "none", arg |-> 0, in |-> "", out |-> "",
     ret |-> FALSE, count |-> 0, calls |-> <<>>, again |-> FALSE]

Init ==
    /\ filter = MetaFilter_ctor
    /\ \E cards \in InputLists :
           lists = [n \in ListNames |-> IF n = "cards" THEN cards ELSE <<>>]
    /\ result = NoResult

max_cost_sets_min(value) ==
    /\ filter' = [filter EXCEPT !.m_min_cost = value]
    /\ result' = [NoResult EXCEPT !.op = "max_cost", !.arg = value]
    /\ UNCHANGED lists

max_cost(value) ==
    /\ filter' = [filter EXCEPT !.m_max_cost = value]
    /\ result' = [NoResult EXCEPT !.op = "max_cost", !.arg = value]
    /\ UNCHANGED lists

min_cost(value) ==
    /\ filter' = [filter EXCEPT !.m_min_cost = value]
    /\ result' = [NoResult EXCEPT !.op = "min_cost", !.arg = value]
    /\ UNCHANGED lists

add_version(version) ==
    /\ Len(filter.m_versions) < MaxVersions
    /\ filter' = [filter EXCEPT !.m_versions = Append(@, version)]
    /\ result' = [NoResult EXCEPT !.op = "add_version", !.arg = version]
    /\ UNCHANGED lists

CostEvaluate(p) ==
    /\ result' = [NoResult EXCEPT !.op = "CostFilter::evaluate", !.arg = p,
                                  !.ret = CostFilter_evaluate(filter, Card[p])]
    /\ UNCHANGED <<filter, lists>>

VersionEvaluate(p) ==
    /\ result' = [NoResult EXCEPT !.op = "VersionFilter::evaluate", !.arg = p,
                                  !.ret = VersionFilter_evaluate(filter, Card[p])]
    /\ UNCHANGED <<filter, lists>>

Evaluate(p) ==
    LET r == MetaFilter_evaluate(filter, Card[p])
    IN  /\ result' = [NoResult EXCEPT !.op = "MetaFilter::evaluate", !.arg = p,
                                      !.ret = r.ret, !.calls = r.calls]
        /\ UNCHANGED <<filter, lists>>

\* filter is passed by value: the call leaves the caller's object alone
GetCards(in, out) ==
    LET r == get_cards(lists, in, out, filter)
    IN  /\ lists' = r.lists
        /\ result' = [NoResult EXCEPT !.op = "get_cards", !.in = in, !.out = out,
                                      !.count = r.ret,
                                      !.again = /\ result.op = "get_cards"
                                                /\ result.in = in
                                                /\ result.out = out]
        /\ UNCHANGED filter

Next ==
    \/ \E value \in CostArgs : max_cost(value)
    \/ \E value \in CostArgs : min_cost(value)
    \/ \E version \in VersionArgs : add_version(version)
    \/ \E p \in Ptrs : CostEvaluate(p)
    \/ \E p \in Ptrs : VersionEvaluate(p)
    \/ \E p \in Ptrs : Evaluate(p)
    \/ \E in \in ListNames, out \in ListNames : GetCards(in, out)

Spec == Init /\ [][Next]_vars

(***************************************************************************)
(* Helpers of the properties                                               *)
(***************************************************************************)
\* How often p occurs in the sequence s
Count(s, p) == Cardinality({i \in 1..Len(s) : s[i] = p})

\* The elements of s that the composed predicate f accepts, in the order of s
Accepted(s, f) ==
    LET Pass(p) == CostFilter_evaluate(f, Card[p]) /\ VersionFilter_evaluate(f, Card[p])
    IN  SelectSeq(s, Pass)

\* The step is a call of get_cards (result' holds its arguments)
IsGetCards == result'.op = "get_cards"

\* The record the last evaluate call was about
LastCard == Card[result.arg]

(***************************************************************************)
(* C1: after get_cards(cards, filter, out_cards) the output collection is  *)
(* exactly the elements of the input, as it was passed, that the composed  *)
(* predicate accepts, in the order of the input.                           *)
(***************************************************************************)
C1_OutputIsAcceptedSubsequence ==
    [][IsGetCards =>
          lists'[result'.out] = Accepted(lists[result'.in], filter)]_vars

(***************************************************************************)
(* C2: the composed evaluate returns the logical AND of                    *)
(* CostFilter::evaluate and VersionFilter::evaluate on the same record.    *)
(***************************************************************************)
C2_ComposedIsAnd ==
    result.op = "MetaFilter::evaluate" =>
        result.ret = (CostFilter_evaluate(filter, LastCard)
                      /\ VersionFilter_evaluate(filter, LastCard))

\* a composed evaluate that is false though the cost component alone is true
C2_Witness ==
    /\ result.op = "MetaFilter::evaluate"
    /\ CostFilter_evaluate(filter, LastCard)
    /\ ~VersionFilter_evaluate(filter, LastCard)
    /\ ~result.ret

(***************************************************************************)
(* C3: CostFilter::evaluate is true iff min < cost < max, both strict: a   *)
(* cost equal to min or to max is rejected, and with min >= max every      *)
(* record is rejected.                                                     *)
(***************************************************************************)
C3_StrictRange ==
    result.op = "CostFilter::evaluate" =>
        LET c   == LastCard.m_cost
            min == filter.m_min_cost
            max == filter.m_max_cost
        IN  /\ result.ret <=> (min < c /\ c < max)
            /\ (c = min \/ c = max) => ~result.ret
            /\ min >= max => ~result.ret

\* a cost on the lower bound of a non-empty range, rejected
C3_Witness ==
    /\ result.op = "CostFilter::evaluate"
    /\ LastCard.m_cost = filter.m_min_cost
    /\ filter.m_min_cost < filter.m_max_cost
    /\ ~result.ret

(***************************************************************************)
(* C4: VersionFilter::evaluate is true iff the record's version occurs in  *)
(* the sequence the add_version calls built (duplicates allowed); with no  *)
(* add_version call it is false.                                           *)
(***************************************************************************)
C4_Membership ==
    result.op = "VersionFilter::evaluate" =>
        LET S == filter.m_versions
            v == LastCard.m_version
        IN  /\ result.ret <=> (\E i \in 1..Len(S) : S[i] = v)
            /\ S = <<>> => ~result.ret

\* the version is found behind a different first element
C4_Witness ==
    /\ result.op = "VersionFilter::evaluate"
    /\ Len(filter.m_versions) = 2
    /\ filter.m_versions[1] # LastCard.m_version
    /\ filter.m_versions[2] = LastCard.m_version
    /\ result.ret

(***************************************************************************)
(* C5: main's scenario: the five cards, add_version(1), add_version(3),    *)
(* max_cost(50) and the minimum left at its default: get_cards yields the  *)
(* records with identifiers 0, 1, 2 in that order.                         *)
(***************************************************************************)
MainScenario ==
    /\ result.op = "get_cards"
    /\ result.in = "cards"
    /\ result.out = "out_cards"
    /\ lists["cards"] = MainCards
    /\ filter.m_versions = <<1, 3>>
    /\ filter.m_max_cost = 100
    /\ filter.m_min_cost = CostFilter_ctor.m_min_cost

Ids(s) == [i \in 1..Len(s) |-> Card[s[i]].m_id]

C5_MainOutput ==
    MainScenario =>
        /\ Ids(lists["out_cards"]) = <<0, 1, 2>>
        /\ result.count = 3

C5_Witness ==
    /\ MainScenario
    /\ lists["out_cards"] = <<1, 2, 3>>

(***************************************************************************)
(* C6: get_cards leaves the input collection as it was: the same elements  *)
(* in the same order after the call as before it, whatever output          *)
(* collection it is given.                                                 *)
(***************************************************************************)
C6_InputNotMutated ==
    [][IsGetCards => lists'[result'.in] = lists[result'.in]]_vars

(***************************************************************************)
(* C7: get_cards is idempotent: a second call right after the first, on    *)
(* the same objects with the same predicate, leaves the output as the      *)
(* first call made it; what the output held before a call does not change  *)
(* the result (the call does as it would on an emptied output); and the    *)
(* count returned is the length of the output.                             *)
(***************************************************************************)
C7_Idempotent ==
    [][IsGetCards =>
          /\ result'.count = Len(lists'[result'.out])
          /\ lists'[result'.out] =
                 get_cards([lists EXCEPT ![result'.out] = <<>>],
                           result'.in, result'.out, filter).lists[result'.out]
          /\ result'.again => lists'[result'.out] = lists[result'.out]]_vars

\* a second run into a separate output collection, with matches
C7_Witness ==
    /\ result.op = "get_cards"
    /\ result.again
    /\ result.in # result.out
    /\ lists[result.out] # <<>>
    /\ result.count = Len(lists[result.out])

(***************************************************************************)
(* C8, as stated: after a call of get_cards no record reference occurs at  *)
(* two positions of the output collection.                                 *)
(***************************************************************************)
C8_NoDuplicates ==
    result.op = "get_cards" =>
        \A i, j \in 1..Len(lists[result.out]) :
            i # j => lists[result.out][i] # lists[result.out][j]

(***************************************************************************)
(* C8, amended: a record reference occurs in the output collection at most *)
(* as often as it occurred in the input collection passed to the call.     *)
(***************************************************************************)
C8_NoMoreThanInInput ==
    [][IsGetCards =>
          \A p \in Ptrs :
              Count(lists'[result'.out], p) <= Count(lists[result'.in], p)]_vars

\* an output that holds a reference twice
C8_Witness ==
    /\ result.op = "get_cards"
    /\ \E p \in Ptrs : Count(lists[result.out], p) = 2

(***************************************************************************)
(* C9: the configuration calls are last-write-wins and touch only their    *)
(* own setting: the bounds start at the largest value and 0 and the        *)
(* accepted sequence empty; max_cost sets the maximum to its argument and  *)
(* leaves the minimum and the versions, min_cost sets the minimum and      *)
(* leaves the maximum and the versions, add_version appends its argument   *)
(* and leaves both bounds; no other operation changes the configuration.   *)
(***************************************************************************)
C9_LastWriteWins ==
    /\ filter = [m_max_cost |-> FLT_MAX, m_min_cost |-> 0, m_versions |-> <<>>]
    /\ [][/\ result'.op = "max_cost" =>
                 /\ filter'.m_max_cost = result'.arg
                 /\ filter'.m_min_cost = filter.m_min_cost
                 /\ filter'.m_versions = filter.m_versions
          /\ result'.op = "min_cost" =>
                 /\ filter'.m_min_cost = result'.arg
                 /\ filter'.m_max_cost = filter.m_max_cost
                 /\ filter'.m_versions = filter.m_versions
          /\ result'.op = "add_version" =>
                 /\ filter'.m_versions = Append(filter.m_versions, result'.arg)
                 /\ filter'.m_max_cost = filter.m_max_cost
                 /\ filter'.m_min_cost = filter.m_min_cost
          /\ result'.op \notin {"max_cost", "min_cost", "add_version"} =>
                 filter' = filter]_vars

\* a max_cost call on a filter whose minimum and versions were set before
C9_Witness ==
    /\ result.op = "max_cost"
    /\ filter.m_max_cost = result.arg
    /\ filter.m_min_cost # 0
    /\ filter.m_versions # <<>>

(***************************************************************************)
(* C10, as stated: one composed evaluate calls the evaluate of every       *)
(* component exactly once, in declaration order, whatever the earlier      *)
(* components returned.                                                    *)
(***************************************************************************)
C10_EveryComponentCalled ==
    result.op = "MetaFilter::evaluate" =>
        result.calls = <<"CostFilter", "VersionFilter">>

(***************************************************************************)
(* C10, amended: one composed evaluate calls CostFilter::evaluate exactly  *)
(* once, first, and then VersionFilter::evaluate exactly once if and only  *)
(* if CostFilter::evaluate returned true.                                  *)
(***************************************************************************)
C10_ShortCircuit ==
    result.op = "MetaFilter::evaluate" =>
        result.calls = IF CostFilter_evaluate(filter, LastCard)
                       THEN <<"CostFilter", "VersionFilter">>
                       ELSE <<"CostFilter">>

\* the cost component rejected the record and the version component was skipped
C10_Witness ==
    /\ result.op = "MetaFilter::evaluate"
    /\ ~CostFilter_evaluate(filter, LastCard)
    /\ result.calls = <<"CostFilter">>
====
